---- MODULE Spec2Model ----
(***************************************************************************)
(* Repository discovery of the multi-tenant chart server:                  *)
(* GET /api/repositories (listRepositoriesHandler) with its two discovery  *)
(* strategies, discoverReposLocalFS and discoverReposFromStorage.          *)
(*                                                                         *)
(* A Go string is a sequence of one-character strings, so that trimming,   *)
(* searching, slicing, glob matching and byte-wise ordering are computed   *)
(* and not assumed.                                                        *)
(***************************************************************************)
EXTENDS Integers, Sequences, FiniteSets

VARIABLES
    fs,       \* process environment and local file tree (STORAGE_LOCAL_ROOTDIR)
    storage,  \* what StorageBackend.ListObjects returns
    pc,       \* per request: the handler's position
    loc,      \* per request: what discoverReposLocalFS returned
    gen,      \* per request: what discoverReposFromStorage returned
    resp,     \* per request: the responses written with c.JSON, in order
    stages,   \* per request: the stages entered, in order
    calls     \* per request: the prefixes passed to ListObjects, in order

vars == <<fs, storage, pc, loc, gen, resp, stages, calls>>

----------------------------------------------------------------------------
(* Bounds *)

\* number of requests in flight
NumReqs == 2

\* longest object listing ListObjects returns
MaxObjs == 3

Reqs == 1..NumReqs

----------------------------------------------------------------------------
(* Strings *)

\* The bytes that occur in the modelled names and paths, in ascending byte
\* order ('*' 42, '.' 46, '/' 47, digits, lower-case letters).
ByteOrder ==
    <<"*", ".", "/", "1", "2", "a", "b", "c", "g", "h", "l", "n", "o", "r",
      "s", "t", "x", "z">>

Byte(c) == CHOOSE i \in 1..Len(ByteOrder) : ByteOrder[i] = c

\* Go's s < t on strings: byte-wise lexicographic order.
RECURSIVE StrLess(_, _)
StrLess(s, t) ==
    IF t = <<>> THEN FALSE
    ELSE IF s = <<>> THEN TRUE
    ELSE IF Head(s) = Head(t) THEN StrLess(Tail(s), Tail(t))
    ELSE Byte(Head(s)) < Byte(Head(t))

\* the comparison left out: the string is put in front
InsertSorted_NoCompare(x, sorted) == <<x>> \o sorted

\* insertion of one string into a sorted sequence
RECURSIVE InsertSorted(_, _)
InsertSorted(x, sorted) ==
    IF sorted = <<>> THEN <<x>>
    ELSE IF StrLess(Head(sorted), x) THEN <<Head(sorted)>> \o InsertSorted(x, Tail(sorted))
    ELSE <<x>> \o sorted

RECURSIVE SortedFrom(_)
SortedFrom(names) ==
    IF names = <<>> THEN <<>>
    ELSE InsertSorted(Head(names), SortedFrom(Tail(names)))

\* a sort that was left out: the names stay in map-iteration order
SortStrings_Missing(names) == names

\* sort.Strings(names)
SortStrings(names) == SortedFrom(names)

\* The orders in which `for k := range set` may visit the keys of a Go map.
MapRange(set) ==
    {o \in [1..Cardinality(set) -> set] :
        \A i, j \in 1..Cardinality(set) : i # j => o[i] # o[j]}

\* strings.TrimLeft(s, "/")
RECURSIVE TrimLeft(_)
TrimLeft(s) ==
    IF s # <<>> /\ Head(s) = "/" THEN TrimLeft(Tail(s)) ELSE s

\* does sub occur in s at 0-based offset i
OccursAt(s, sub, i) ==
    /\ i + Len(sub) <= Len(s)
    /\ SubSeq(s, i + 1, i + Len(sub)) = sub

\* strings.Index(s, sub) and strings.IndexByte(s, c): the 0-based offset of
\* the first occurrence, or -1.
RECURSIVE IndexFrom(_, _, _)
IndexFrom(s, sub, i) ==
    IF i + Len(sub) > Len(s) THEN -1
    ELSE IF OccursAt(s, sub, i) THEN i
    ELSE IndexFrom(s, sub, i + 1)

Index(s, sub) == IndexFrom(s, sub, 0)

\* the literal "/charts/"
ChartsDelim == <<"/", "c", "h", "a", "r", "t", "s", "/">>

----------------------------------------------------------------------------
(* The local file tree *)

\* File and directory names.  A path below the root is a sequence of names.
ra == <<"r", "a">>
rb == <<"r", "b">>
rstar == <<"r", "*">>
charts == <<"c", "h", "a", "r", "t", "s">>
aTgz == <<"a", ".", "t", "g", "z">>
aTxt == <<"a", ".", "t", "x", "t">>

\* the pattern "*.tgz"
StarTgz == <<"*", ".", "t", "g", "z">>

Front(p) == SubSeq(p, 1, Len(p) - 1)
Last(p) == p[Len(p)]

\* the entries directly inside directory dir
Children(tree, dir) ==
    {p \in tree.dirs \cup tree.files :
        Len(p) = Len(dir) + 1 /\ SubSeq(p, 1, Len(dir)) = dir}

\* os.Lstat(p) succeeds; the root itself has been stat-ed before any glob
Exists(tree, p) == p = <<>> \/ p \in tree.dirs \cup tree.files

\* os.Stat(p) succeeds and fi.IsDir()
IsDir(tree, p) == p = <<>> \/ p \in tree.dirs

\* path/filepath's magic characters (non-Windows)
MagicChars == {"*", "?", "[", "\\"}

\* filepath's hasMeta
HasMeta(name) == \E i \in 1..Len(name) : name[i] \in MagicChars

\* filepath.Match(pattern, name) for patterns of literal bytes and '*'
\* (the names of the model hold none of '?', '[', '\' and no separator):
\* '*' matches any sequence of bytes, any other byte matches itself.
RECURSIVE Match(_, _)
Match(pattern, name) ==
    IF pattern = <<>> THEN name = <<>>
    ELSE IF Head(pattern) = "*"
    THEN \E k \in 0..Len(name) :
            Match(Tail(pattern), SubSeq(name, k + 1, Len(name)))
    ELSE /\ name # <<>>
         /\ Head(name) = Head(pattern)
         /\ Match(Tail(pattern), Tail(name))

\* filepath's glob(dir, pattern, matches): the entries of dir whose name
\* matches; nothing when dir cannot be stat-ed or is no directory.
GlobDir(tree, dir, file) ==
    IF IsDir(tree, dir)
    THEN {p \in Children(tree, dir) : Match(file, Last(p))}
    ELSE {}

\* filepath.Glob(filepath.Join(root, pattern...)): the pattern is the
\* sequence of path elements below the root; the root holds no magic byte.
RECURSIVE Glob(_, _)
Glob(tree, pattern) ==
    IF \A i \in 1..Len(pattern) : ~HasMeta(pattern[i])
    THEN IF Exists(tree, pattern) THEN {pattern} ELSE {}
    ELSE LET dir == Front(pattern)
             file == Last(pattern)
             m == IF \A i \in 1..Len(dir) : ~HasMeta(dir[i])
                  THEN {dir}
                  ELSE Glob(tree, dir)
         IN  UNION {GlobDir(tree, d, file) : d \in m}

\* (nil, false)
NotApplicable == [names |-> <<>>, ok |-> FALSE]

\* root is set, os.Stat finds a directory and os.ReadDir succeeds
LocalReadable(f) == f.rootSet /\ f.stat = "dir" /\ ~f.readDirErr

\* the set built by the loop over the entries of the root
LocalRepoSet(f) ==
    {Last(e) : e \in
        {p \in Children(f, <<>>) :
            /\ p \in f.dirs
            /\ \/ Glob(f, <<Last(p), charts, StarTgz>>) # {}
               \/ Glob(f, <<Last(p), StarTgz>>) # {}}}

\* the check for an empty set left out: an empty list is returned as usable
discoverReposLocalFS_NoEmptyCheck(f) ==
    IF ~LocalReadable(f)
    THEN {NotApplicable}
    ELSE {[names |-> SortStrings(o), ok |-> TRUE] : o \in MapRange(LocalRepoSet(f))}

\* discoverReposLocalFS: every (names, ok) a call may return
discoverReposLocalFS(f) ==
    IF ~LocalReadable(f) \/ LocalRepoSet(f) = {}
    THEN {NotApplicable}
    ELSE {[names |-> SortStrings(o), ok |-> TRUE] : o \in MapRange(LocalRepoSet(f))}

----------------------------------------------------------------------------
(* The generic object listing *)

\* only the first path segment is used, the "/charts/" layout is ignored
AddRepo_FirstSegmentOnly(path, set) ==
    LET p == TrimLeft(path)
        i == Index(p, <<"/">>)
    IN  IF p # <<>> /\ i > 0 THEN set \cup {SubSeq(p, 1, i)} ELSE set

\* one iteration of the loop over the listed objects
AddRepo(path, set) ==
    LET p == TrimLeft(path)
        idx == Index(p, ChartsDelim)
        i == Index(p, <<"/">>)
    IN  IF p = <<>> THEN set
        ELSE IF idx > 0
        THEN IF SubSeq(p, 1, idx) # <<>> THEN set \cup {SubSeq(p, 1, idx)} ELSE set
        ELSE IF i > 0 THEN set \cup {SubSeq(p, 1, i)}
        ELSE set

\* the loop over the listed objects, from the empty set
RECURSIVE CollectRepos(_, _)
CollectRepos(objs, set) ==
    IF objs = <<>> THEN set
    ELSE CollectRepos(Tail(objs), AddRepo(Head(objs), set))

\* discoverReposFromStorage, given what ListObjects returned: every
\* (names, err) a call may return
discoverReposFromStorage(listed) ==
    IF ~listed.ok
    THEN {[names |-> <<>>, failed |-> TRUE, err |-> listed.err]}
    ELSE {[names |-> SortStrings(o), failed |-> FALSE, err |-> ""] :
            o \in MapRange(CollectRepos(listed.objs, {}))}

----------------------------------------------------------------------------
(* The inputs: file trees and object listings *)

DirNames == {ra, rb, rstar}

\* what may lie at <root>/<n>
LayoutsOf(n) ==
    IF n = ra THEN {"absent", "empty", "flat", "charts", "file"}
    ELSE IF n = rb THEN {"absent", "flat", "noarchive"}
    ELSE {"absent", "empty", "flat"}

Layout(n, kind) ==
    CASE kind = "absent" -> [dirs |-> {}, files |-> {}]
      [] kind = "empty" -> [dirs |-> {<<n>>}, files |-> {}]
      [] kind = "flat" -> [dirs |-> {<<n>>}, files |-> {<<n, aTgz>>}]
      [] kind = "charts" ->
            [dirs |-> {<<n>>, <<n, charts>>}, files |-> {<<n, charts, aTgz>>}]
      [] kind = "noarchive" ->
            [dirs |-> {<<n>>, <<n, charts>>},
             files |-> {<<n, aTxt>>, <<n, charts, aTxt>>}]
      [] kind = "file" -> [dirs |-> {}, files |-> {<<n>>}]

LayoutChoices == {c \in [DirNames -> {"absent", "empty", "flat", "charts", "noarchive", "file"}] :
                    \A n \in DirNames : c[n] \in LayoutsOf(n)}

FsEnv(rootSet, stat, readDirErr, c) ==
    [rootSet |-> rootSet, stat |-> stat, readDirErr |-> readDirErr,
     dirs |-> UNION {Layout(n, c[n]).dirs : n \in DirNames},
     files |-> UNION {Layout(n, c[n]).files : n \in DirNames}]

NoEntries == [n \in DirNames |-> "absent"]
OneRepo == [n \in DirNames |-> IF n = ra THEN "flat" ELSE "absent"]

\* STORAGE_LOCAL_ROOTDIR unset; set but os.Stat fails; set to a plain file;
\* a directory os.ReadDir fails on; a readable directory
FsPool ==
    {FsEnv(FALSE, "missing", FALSE, NoEntries),
     FsEnv(TRUE, "missing", FALSE, NoEntries),
     FsEnv(TRUE, "file", FALSE, NoEntries),
     FsEnv(TRUE, "dir", TRUE, OneRepo)}
    \cup {FsEnv(TRUE, "dir", FALSE, c) : c \in LayoutChoices}

\* object paths
t1 == <<"t", "1">>
t2 == <<"t", "2">>
PathT1Charts == <<"t", "1", "/", "c", "h", "a", "r", "t", "s", "/", "a", ".", "t", "g", "z">>
PathT2Flat == <<"t", "2", "/", "b", ".", "t", "g", "z">>
PathNoSlash == <<"n", "o", "s", "l", "a", "s", "h">>
PathLeadingSlash == <<"/", "t", "1", "/", "x">>
PathNested == <<"a", "/", "b", "/", "c", "h", "a", "r", "t", "s", "/", "c">>
PathOnlySlash == <<"/">>
PathTwoDelims ==
    <<"x", "/", "c", "h", "a", "r", "t", "s", "/", "c", "h", "a", "r", "t", "s", "/", "c">>

ObjPaths ==
    {PathT1Charts, PathT2Flat, PathNoSlash, PathLeadingSlash, PathNested, PathOnlySlash,
     PathTwoDelims}

ListErrors == {"backend timeout", "access denied"}

Listed(objs) == [ok |-> TRUE, objs |-> objs, err |-> ""]
ListFailed(msg) == [ok |-> FALSE, objs |-> <<>>, err |-> msg]

\* a few listings, for the runs with several requests in flight
ListingPool ==
    {<<>>,
     <<PathT1Charts, PathT2Flat, PathNoSlash>>,
     <<PathT2Flat, PathLeadingSlash, PathT1Charts>>,
     <<PathNested, PathOnlySlash>>}

\* every listing of at most MaxObjs objects
AllListings == UNION {[1..n -> ObjPaths] : n \in 0..MaxObjs}

----------------------------------------------------------------------------
(* The handler *)

StatusOK == 200
StatusForbidden == 403
StatusInternalServerError == 500

RespForbidden ==
    [status |-> StatusForbidden, isArray |-> FALSE, names |-> <<>>,
     error |-> "listing repositories is disabled"]
RespNames(names) ==
    [status |-> StatusOK, isArray |-> TRUE, names |-> names, error |-> ""]
RespError(msg) ==
    [status |-> StatusInternalServerError, isArray |-> FALSE, names |-> <<>>,
     error |-> msg]

\* the feature flag stub
allowListRepos == TRUE

\* s.StorageBackend.ListObjects(prefix)
ListObjects(prefix) == storage

\* the local strategy is skipped
AfterGate_SkipLocal(allowed) == IF allowed THEN "generic" ELSE "done"

\* where the handler goes after the gate check
AfterGate(allowed) == IF allowed THEN "local" ELSE "done"

\* the return after c.JSON(http.StatusOK, names) left out
AfterLocal_NoReturn(ok) == "generic"

\* where the handler goes after discoverReposLocalFS
AfterLocal(ok) == IF ok THEN "done" ELSE "generic"

\* the error is dropped and the (empty) names are sent
StorageResponse_SwallowError(res) == RespNames(res.names)

\* what the handler writes after discoverReposFromStorage
StorageResponse(res) ==
    IF res.failed THEN RespError(res.err) ELSE RespNames(res.names)

GateCheck(r) ==
    /\ pc[r] = "gate"
    /\ pc' = [pc EXCEPT ![r] = AfterGate(allowListRepos)]
    /\ IF allowListRepos
       THEN /\ stages' = [stages EXCEPT ![r] = Append(@, "gate-check")]
            /\ resp' = resp
       ELSE /\ stages' = [stages EXCEPT ![r] = @ \o <<"gate-check", "respond">>]
            /\ resp' = [resp EXCEPT ![r] = Append(@, RespForbidden)]
    /\ UNCHANGED <<fs, storage, loc, gen, calls>>

AttemptLocal(r) ==
    /\ pc[r] = "local"
    /\ \E res \in discoverReposLocalFS(fs) :
        /\ loc' = [loc EXCEPT ![r] = [called |-> TRUE, names |-> res.names, ok |-> res.ok]]
        /\ pc' = [pc EXCEPT ![r] = AfterLocal(res.ok)]
        /\ IF res.ok
           THEN /\ stages' = [stages EXCEPT ![r] = @ \o <<"attempt-local", "respond">>]
                /\ resp' = [resp EXCEPT ![r] = Append(@, RespNames(res.names))]
           ELSE /\ stages' = [stages EXCEPT ![r] = Append(@, "attempt-local")]
                /\ resp' = resp
    /\ UNCHANGED <<fs, storage, gen, calls>>

AttemptGeneric(r) ==
    /\ pc[r] = "generic"
    /\ calls' = [calls EXCEPT ![r] = Append(@, "")]
    /\ \E res \in discoverReposFromStorage(ListObjects("")) :
        /\ gen' = [gen EXCEPT ![r] = [called |-> TRUE, names |-> res.names,
                                      failed |-> res.failed, err |-> res.err]]
        /\ resp' = [resp EXCEPT ![r] = Append(@, StorageResponse(res))]
    /\ stages' = [stages EXCEPT ![r] = @ \o <<"attempt-generic", "respond">>]
    /\ pc' = [pc EXCEPT ![r] = "done"]
    /\ UNCHANGED <<fs, storage, loc>>

listRepositoriesHandler(r) ==
    GateCheck(r) \/ AttemptLocal(r) \/ AttemptGeneric(r)

InitRequests ==
    /\ pc = [r \in Reqs |-> "gate"]
    /\ loc = [r \in Reqs |-> [called |-> FALSE, names |-> <<>>, ok |-> FALSE]]
    /\ gen = [r \in Reqs |-> [called |-> FALSE, names |-> <<>>, failed |-> FALSE, err |-> ""]]
    /\ resp = [r \in Reqs |-> <<>>]
    /\ stages = [r \in Reqs |-> <<>>]
    /\ calls = [r \in Reqs |-> <<>>]

\* Several requests in flight, over every file tree and a few listings.
Init ==
    /\ fs \in FsPool
    /\ storage \in {Listed(o) : o \in ListingPool} \cup {ListFailed(m) : m \in ListErrors}
    /\ InitRequests

Next == \E r \in Reqs : listRepositoriesHandler(r)

Spec == Init /\ [][Next]_vars

\* One request served, over every file tree and every listing.
InitAnyListing ==
    /\ fs \in FsPool
    /\ storage \in {Listed(o) : o \in AllListings} \cup {ListFailed(m) : m \in ListErrors}
    /\ InitRequests

NextFirst == listRepositoriesHandler(1)

SpecAnyListing == InitAnyListing /\ [][NextFirst]_vars

----------------------------------------------------------------------------
(* What the claims speak of, stated without the code's own operators *)

Range(seq) == {seq[i] : i \in DOMAIN seq}

Count(seq, x) == Cardinality({i \in DOMAIN seq : seq[i] = x})

IsDone(r) == pc[r] = "done"

\* s sorts before t, byte by byte: they agree on the first k bytes, and then
\* s ends and t does not, or the next byte of s is the smaller one
LexLess(s, t) ==
    \E k \in 0..Len(s) :
        /\ k <= Len(t)
        /\ \A i \in 1..k : s[i] = t[i]
        /\ \/ k = Len(s) /\ k < Len(t)
           \/ k < Len(s) /\ k < Len(t) /\ Byte(s[k + 1]) < Byte(t[k + 1])

\* ascending with no name twice
StrictlyAscending(names) ==
    \A i, j \in DOMAIN names : i < j => LexLess(names[i], names[j])

\* path without its leading slashes
Stripped(path) ==
    LET n == CHOOSE k \in 0..Len(path) :
                /\ \A i \in 1..k : path[i] = "/"
                /\ k < Len(path) => path[k + 1] # "/"
    IN  SubSeq(path, n + 1, Len(path))

\* the offsets greater than zero at which sub lies in p
OffsetsOf(p, sub) == {i \in 1..Len(p) : OccursAt(p, sub, i)}

Least(S) == CHOOSE x \in S : \A y \in S : x <= y

\* the names (none or one) the two heuristics give for one object path
InferredNames(path) ==
    LET p == Stripped(path)
    IN  IF p = <<>> THEN {}
        ELSE IF OffsetsOf(p, ChartsDelim) # {}
        THEN {SubSeq(p, 1, Least(OffsetsOf(p, ChartsDelim)))}
        ELSE IF OffsetsOf(p, <<"/">>) # {}
        THEN {SubSeq(p, 1, Least(OffsetsOf(p, <<"/">>)))}
        ELSE {}

\* name ends in ".tgz"
IsTgz(name) ==
    /\ Len(name) >= 4
    /\ SubSeq(name, Len(name) - 3, Len(name)) = <<".", "t", "g", "z">>

\* directory <root>/<d> holds a file d/*.tgz or d/charts/*.tgz
HasArchive(tree, d) ==
    \E p \in tree.files :
        /\ IsTgz(Last(p))
        /\ Front(p) = <<d>> \/ Front(p) = <<d, charts>>

\* the immediate child directories of the root, by name
ChildDirs(tree) == {Last(p) : p \in {q \in tree.dirs : Len(q) = 1}}

\* the root is unset, missing, no directory, unreadable or empty
RootUnusable ==
    \/ ~fs.rootSet
    \/ fs.stat # "dir"
    \/ fs.readDirErr
    \/ Children(fs, <<>>) = {}

----------------------------------------------------------------------------
(* The claims *)

\* The gate of this build is the constant true: no request is ever refused,
\* so the refusal branch of the handler (the subject of C1) is never taken.
GateAlwaysPermits ==
    \A r \in Reqs : \A i \in DOMAIN resp[r] : resp[r][i].status # StatusForbidden

\* C2: whenever discoverReposLocalFS returned ok = true, the request has
\* ended with the single response 200 carrying exactly the names that call
\* returned, and ListObjects was not invoked by that request.
C2_LocalShortCircuits ==
    \A r \in Reqs :
        (loc[r].called /\ loc[r].ok) =>
            /\ IsDone(r)
            /\ resp[r] = <<RespNames(loc[r].names)>>
            /\ StrictlyAscending(loc[r].names)
            /\ calls[r] = <<>>
            /\ ~gen[r].called

\* a request answered from a local tree with two repositories
C2_Witness ==
    \E r \in Reqs :
        /\ loc[r].ok
        /\ IsDone(r)
        /\ loc[r].names = <<ra, rb>>
        /\ storage.ok /\ storage.objs # <<>>

C4_ExactlyTheDirsWithArchives ==
    \A r \in Reqs :
        (loc[r].called /\ LocalReadable(fs)) =>
            \A d \in ChildDirs(fs) :
                Count(loc[r].names, d) = IF HasArchive(fs, d) THEN 1 ELSE 0

\* Beside C4: the same statement holds of every tree whose directory names
\* hold none of the glob magic characters.
LocalExactWithoutMagicNames ==
    (\A d \in ChildDirs(fs) : ~HasMeta(d)) => C4_ExactlyTheDirsWithArchives

\* C5: the names discoverReposFromStorage returns are exactly the names the
\* two heuristics give for the listed paths: what precedes the first
\* "/charts/", else the first segment, else nothing.
C5_NamesAreTheInferredOnes ==
    \A r \in Reqs :
        (gen[r].called /\ ~gen[r].failed) =>
            Range(gen[r].names) =
                UNION {InferredNames(storage.objs[i]) : i \in DOMAIN storage.objs}

\* the listing ["t1/charts/a.tgz", "t2/b.tgz", "noslash"] gave ["t1", "t2"]
C5_Witness ==
    \E r \in Reqs :
        /\ storage.ok
        /\ storage.objs = <<PathT1Charts, PathT2Flat, PathNoSlash>>
        /\ gen[r].called
        /\ gen[r].names = <<t1, t2>>

\* C6: the names either strategy returned, and the names of every 200
\* response, are in ascending byte order with no name twice.
C6_SortedWithoutDuplicates ==
    \A r \in Reqs :
        /\ StrictlyAscending(loc[r].names)
        /\ StrictlyAscending(gen[r].names)
        /\ \A i \in DOMAIN resp[r] :
            resp[r][i].status = StatusOK => StrictlyAscending(resp[r][i].names)

\* "t1" listed after "t2", and reached through both heuristics
C6_Witness ==
    \E r \in Reqs :
        /\ storage.ok
        /\ storage.objs = <<PathT2Flat, PathLeadingSlash, PathT1Charts>>
        /\ IsDone(r)
        /\ resp[r] = <<RespNames(<<t1, t2>>)>>

\* C7: a finished request carries 500 exactly when the gate permitted, the
\* local strategy was not applicable and ListObjects failed; the 500 body is
\* the error message and no names; every other finished request carries 200
\* and a list of names.
C7_ServerErrorOnlyFromListing ==
    \A r \in Reqs :
        IsDone(r) =>
            /\ Len(resp[r]) = 1
            /\ resp[r][1].status = StatusInternalServerError
                <=> (allowListRepos /\ loc[r].called /\ ~loc[r].ok /\ ~storage.ok)
            /\ resp[r][1].status = StatusInternalServerError =>
                /\ ~resp[r][1].isArray
                /\ resp[r][1].names = <<>>
                /\ resp[r][1].error = storage.err
            /\ (allowListRepos /\ resp[r][1].status # StatusInternalServerError) =>
                /\ resp[r][1].status = StatusOK
                /\ resp[r][1].isArray
                /\ resp[r][1].error = ""

\* a request that ended with 500 over an unusable root
C7_Witness ==
    \E r \in Reqs :
        /\ IsDone(r)
        /\ resp[r] = <<RespError("access denied")>>
        /\ ~storage.ok

\* C8 as claimed: every returned name is non-empty and witnessed by the
\* input: a listed path yields it, or the child directory of that name
\* holds an archive.
C8_NamesAreWitnessed ==
    \A r \in Reqs :
        /\ \A i \in DOMAIN gen[r].names :
            /\ gen[r].names[i] # <<>>
            /\ \E k \in DOMAIN storage.objs :
                gen[r].names[i] \in InferredNames(storage.objs[k])
        /\ \A i \in DOMAIN loc[r].names :
            /\ loc[r].names[i] # <<>>
            /\ loc[r].names[i] \in ChildDirs(fs)
            /\ HasArchive(fs, loc[r].names[i])

\* Beside C8: the names of the generic strategy are always witnessed, and
\* those of the local strategy are in every tree without magic names.
NamesWitnessedWithoutMagicNames ==
    (\A d \in ChildDirs(fs) : ~HasMeta(d)) => C8_NamesAreWitnessed

StagePaths ==
    {<<"gate-check", "respond">>,
     <<"gate-check", "attempt-local", "respond">>,
     <<"gate-check", "attempt-local", "attempt-generic", "respond">>}

IsPrefix(s, t) == Len(s) <= Len(t) /\ SubSeq(t, 1, Len(s)) = s

\* C9: the stages a request has entered are an initial part of gate-check,
\* attempt-local, attempt-generic, respond (the last two or the middle two
\* possibly skipped), none entered twice; ListObjects is invoked at most
\* once, and only in attempt-generic; a request has ended exactly when it
\* has written its one response, which is 403, 200 or 500.
C9_StagesInOrderOnce ==
    \A r \in Reqs :
        /\ \E path \in StagePaths : IsPrefix(stages[r], path)
        /\ Len(calls[r]) <= 1
        /\ Len(calls[r]) = Count(stages[r], "attempt-generic")
        /\ Len(resp[r]) = Count(stages[r], "respond")
        /\ Len(resp[r]) <= 1
        /\ IsDone(r) <=> Len(resp[r]) = 1
        /\ IsDone(r) =>
            /\ stages[r] \in StagePaths
            /\ resp[r][1].status \in {StatusForbidden, StatusOK, StatusInternalServerError}

\* a request that went through all four stages while another had not ended
C9_Witness ==
    \E r, q \in Reqs :
        /\ r # q
        /\ stages[r] = <<"gate-check", "attempt-local", "attempt-generic", "respond">>
        /\ IsDone(r)
        /\ Len(calls[r]) = 1
        /\ pc[q] = "generic"

\* C10: over one store and one configuration, any two finished requests,
\* however their steps interleaved, carry the same status and the same
\* sequence of names (or the same error).
C10_SameAnswerForAll ==
    \A r, q \in Reqs : (IsDone(r) /\ IsDone(q)) => resp[r] = resp[q]

\* two finished requests that each built the list of two names from its map
C10_Witness ==
    \E r, q \in Reqs :
        /\ r # q
        /\ IsDone(r) /\ IsDone(q)
        /\ gen[r].called /\ gen[q].called
        /\ Len(resp[r][1].names) = 2

====
